---------------------------- MODULE Spec2Model ----------------------------
(***************************************************************************)
(* A model of src/individual_1.py: the TrainManager record store (add,     *)
(* list, select, load from JSON, save to JSON) and the interactive loop of *)
(* main() that drives it.                                                  *)
(*                                                                         *)
(* Python strings are sequences of one-character strings, so that          *)
(* str.lower(), str.endswith(), the code-point ordering used by            *)
(* list.sort() and the text produced by json.dump / read by json.load are  *)
(* all computed character by character.                                    *)
(***************************************************************************)
EXTENDS Integers, Sequences, FiniteSets, TLC

(***************************************************************************)
(* Bounds of the model.                                                    *)
(***************************************************************************)
\* add_train is not offered once the list holds this many records
MaxTrains == 3

(***************************************************************************)
(* Characters and Python str operations.                                   *)
(***************************************************************************)
\* the printable ASCII characters in code-point order, starting at U+0020
\* (without the backquote, which no string of the model holds)
Ascii ==
  <<" ","!","\"","#","$","%","&","'","(",")","*","+",",","-",".","/",
    "0","1","2","3","4","5","6","7","8","9",":",";","<","=",">","?",
    "@","A","B","C","D","E","F","G","H","I","J","K","L","M","N","O",
    "P","Q","R","S","T","U","V","W","X","Y","Z","[","\\","]","^","_",
    "a","b","c","d","e","f","g","h","i","j","k","l","m","n","o",
    "p","q","r","s","t","u","v","w","x","y","z","{","|","}","~">>

UpperLetters ==
  <<"A","B","C","D","E","F","G","H","I","J","K","L","M",
    "N","O","P","Q","R","S","T","U","V","W","X","Y","Z">>

LowerLetters ==
  <<"a","b","c","d","e","f","g","h","i","j","k","l","m",
    "n","o","p","q","r","s","t","u","v","w","x","y","z">>

\* ord(c): position in code-point order (only the order matters to sort)
Ord(c) == CHOOSE i \in 1..Len(Ascii) : Ascii[i] = c

\* one character of str.lower()
LowerChar(c) ==
  IF \E i \in 1..Len(UpperLetters) : UpperLetters[i] = c
    THEN LowerLetters[CHOOSE i \in 1..Len(UpperLetters) : UpperLetters[i] = c]
    ELSE c

\* str.lower()
Lower(s) == [i \in 1..Len(s) |-> LowerChar(s[i])]

\* s1 < s2 on str: lexicographic by code point, a proper prefix is smaller
StrLess(s1, s2) ==
  \E k \in 1..(Len(s2)) :
    /\ \A i \in 1..(k - 1) : i <= Len(s1) /\ s1[i] = s2[i]
    /\ k - 1 <= Len(s1)
    /\ \/ k = Len(s1) + 1
       \/ k <= Len(s1) /\ Ord(s1[k]) < Ord(s2[k])

\* str.endswith(suffix)
EndsWith(s, suffix) ==
  /\ Len(suffix) <= Len(s)
  /\ SubSeq(s, Len(s) - Len(suffix) + 1, Len(s)) = suffix

\* str.startswith(prefix)
StartsWith(s, prefix) ==
  /\ Len(prefix) <= Len(s)
  /\ SubSeq(s, 1, Len(prefix)) = prefix

Whitespace == {" ", "\n", "\t", "\r"}

(***************************************************************************)
(* Python values.  Every value has the same three fields so that any two   *)
(* values can be compared: t is the type, s the characters of a str (or    *)
(* the key of a dict item), items the elements of a list, the items of a   *)
(* dict in insertion order, or the one value of a dict item.               *)
(***************************************************************************)
PyNone == [t |-> "None", s |-> <<>>, items |-> <<>>]
PyStr(chars) == [t |-> "str", s |-> chars, items |-> <<>>]
PyList(elems) == [t |-> "list", s |-> <<>>, items |-> elems]
PyItem(key, value) == [t |-> "item", s |-> key, items |-> <<value>>]
PyDict(kvs) == [t |-> "dict", s |-> <<>>, items |-> kvs]

\* key in d
HasKey(d, key) == \E i \in 1..Len(d.items) : d.items[i].s = key

\* d[key], for a key that is present
GetKey(d, key) ==
  d.items[CHOOSE i \in 1..Len(d.items) : d.items[i].s = key].items[1]

\* the items of a dict after d[key] = value: a present key keeps its place
PutItem(kvs, key, value) ==
  IF \E i \in 1..Len(kvs) : kvs[i].s = key
    THEN [i \in 1..Len(kvs) |->
            IF kvs[i].s = key THEN PyItem(key, value) ELSE kvs[i]]
    ELSE Append(kvs, PyItem(key, value))

(***************************************************************************)
(* The keys of a train record.                                             *)
(***************************************************************************)
KeyDeparturePoint ==
  <<"d","e","p","a","r","t","u","r","e","_","p","o","i","n","t">>
KeyNumberTrain == <<"n","u","m","b","e","r","_","t","r","a","i","n">>
KeyTimeDeparture ==
  <<"t","i","m","e","_","d","e","p","a","r","t","u","r","e">>
KeyDestination == <<"d","e","s","t","i","n","a","t","i","o","n">>

\* the dict literal add_train appends
TrainDict(departure_point, number_train, time_departure, destination) ==
  PyDict(<< PyItem(KeyDeparturePoint, PyStr(departure_point)),
            PyItem(KeyNumberTrain, PyStr(number_train)),
            PyItem(KeyTimeDeparture, PyStr(time_departure)),
            PyItem(KeyDestination, PyStr(destination)) >>)

(***************************************************************************)
(* json.dump(obj, f, ensure_ascii=False, indent=4): the text written.      *)
(***************************************************************************)
\* the indent argument of json.dump
IndentWidth == 4

Spaces(n) == [i \in 1..n |-> " "]

NewlineIndent(level) == <<"\n">> \o Spaces(level * IndentWidth)

RECURSIVE EscapeStr(_)
\* the characters of a str between the quotes: with ensure_ascii=False only
\* the quote and the backslash (and control characters, which no modelled
\* str holds) are escaped, everything else is written literally
EscapeStr(chars) ==
  IF chars = <<>> THEN <<>>
  ELSE LET c == Head(chars) IN
       (IF c = "\"" THEN <<"\\", "\"">>
        ELSE IF c = "\\" THEN <<"\\", "\\">>
        ELSE IF c = "\n" THEN <<"\\", "n">>
        ELSE IF c = "\t" THEN <<"\\", "t">>
        ELSE IF c = "\r" THEN <<"\\", "r">>
        ELSE <<c>>) \o EscapeStr(Tail(chars))

QuoteStr(chars) == <<"\"">> \o EscapeStr(chars) \o <<"\"">>

RECURSIVE DumpValue(_, _)
RECURSIVE DumpElems(_, _, _)
\* elements i..Len(elems) of a list or dict at nesting depth level, each on
\* a line of its own, separated by ","
DumpElems(elems, i, level) ==
  IF i > Len(elems) THEN <<>>
  ELSE NewlineIndent(level)
       \o (IF elems[i].t = "item"
             THEN QuoteStr(elems[i].s) \o <<":", " ">>
                  \o DumpValue(elems[i].items[1], level)
             ELSE DumpValue(elems[i], level))
       \o (IF i < Len(elems) THEN <<",">> ELSE <<>>)
       \o DumpElems(elems, i + 1, level)

DumpValue(v, level) ==
  IF v.t = "str" THEN QuoteStr(v.s)
  ELSE IF v.t = "list" THEN
    IF v.items = <<>> THEN <<"[", "]">>
    ELSE <<"[">> \o DumpElems(v.items, 1, level + 1)
         \o NewlineIndent(level) \o <<"]">>
  ELSE IF v.t = "dict" THEN
    IF v.items = <<>> THEN <<"{", "}">>
    ELSE <<"{">> \o DumpElems(v.items, 1, level + 1)
         \o NewlineIndent(level) \o <<"}">>
  ELSE <<"n", "u", "l", "l">>

JsonDump(v) == DumpValue(v, 0)

(***************************************************************************)
(* json.load(f): the value parsed from a text, or a JSONDecodeError.       *)
(* The grammar covers strings, arrays and objects; numbers and the         *)
(* literals true/false/null, and the escapes \b and \uXXXX, appear in no   *)
(* file of the model.                                                      *)
(***************************************************************************)
ParseFail == [ok |-> FALSE, val |-> PyNone, next |-> 0]
ParseOk(v, n) == [ok |-> TRUE, val |-> v, next |-> n]

\* the character at position i, "" past the end
At(text, i) == IF i \in 1..Len(text) THEN text[i] ELSE ""

RECURSIVE SkipWs(_, _)
SkipWs(text, i) ==
  IF At(text, i) \in Whitespace THEN SkipWs(text, i + 1) ELSE i

RECURSIVE ParseStringBody(_, _, _)
\* i is just after the opening quote; acc the characters decoded so far
ParseStringBody(text, i, acc) ==
  LET c == At(text, i) IN
  IF c = "" THEN ParseFail
  ELSE IF c = "\"" THEN ParseOk(PyStr(acc), i + 1)
  ELSE IF c = "\\" THEN
    LET e == At(text, i + 1) IN
    IF e \in {"\"", "\\", "/"} THEN ParseStringBody(text, i + 2, Append(acc, e))
    ELSE IF e = "n" THEN ParseStringBody(text, i + 2, Append(acc, "\n"))
    ELSE IF e = "t" THEN ParseStringBody(text, i + 2, Append(acc, "\t"))
    ELSE IF e = "r" THEN ParseStringBody(text, i + 2, Append(acc, "\r"))
    ELSE ParseFail
  ELSE IF c \in {"\n", "\t", "\r"} THEN ParseFail
  ELSE ParseStringBody(text, i + 1, Append(acc, c))

RECURSIVE ParseValue(_, _)
RECURSIVE ParseArrayItems(_, _, _)
RECURSIVE ParseObjectItems(_, _, _)

\* i is where an element must start; acc the elements parsed so far
ParseArrayItems(text, i, acc) ==
  LET r == ParseValue(text, i) IN
  IF ~r.ok THEN ParseFail
  ELSE LET j == SkipWs(text, r.next) IN
       IF At(text, j) = ","
         THEN ParseArrayItems(text, SkipWs(text, j + 1), Append(acc, r.val))
       ELSE IF At(text, j) = "]"
         THEN ParseOk(PyList(Append(acc, r.val)), j + 1)
       ELSE ParseFail

\* i is where a key's opening quote must be; acc the items parsed so far
ParseObjectItems(text, i, acc) ==
  IF At(text, i) # "\"" THEN ParseFail
  ELSE LET k == ParseStringBody(text, i + 1, <<>>) IN
       IF ~k.ok THEN ParseFail
       ELSE LET c == SkipWs(text, k.next) IN
            IF At(text, c) # ":" THEN ParseFail
            ELSE LET r == ParseValue(text, SkipWs(text, c + 1)) IN
                 IF ~r.ok THEN ParseFail
                 ELSE LET j == SkipWs(text, r.next)
                          kvs == PutItem(acc, k.val.s, r.val)
                      IN IF At(text, j) = ","
                           THEN ParseObjectItems(text, SkipWs(text, j + 1), kvs)
                         ELSE IF At(text, j) = "}"
                           THEN ParseOk(PyDict(kvs), j + 1)
                         ELSE ParseFail

ParseValue(text, i) ==
  LET c == At(text, i) IN
  IF c = "\"" THEN ParseStringBody(text, i + 1, <<>>)
  ELSE IF c = "[" THEN
    LET j == SkipWs(text, i + 1) IN
    IF At(text, j) = "]" THEN ParseOk(PyList(<<>>), j + 1)
    ELSE ParseArrayItems(text, j, <<>>)
  ELSE IF c = "{" THEN
    LET j == SkipWs(text, i + 1) IN
    IF At(text, j) = "}" THEN ParseOk(PyDict(<<>>), j + 1)
    ELSE ParseObjectItems(text, j, <<>>)
  ELSE ParseFail

\* the whole text must be one value, surrounded by optional whitespace
JsonLoad(text) ==
  LET r == ParseValue(text, SkipWs(text, 1)) IN
  IF r.ok /\ SkipWs(text, r.next) = Len(text) + 1 THEN r ELSE ParseFail

(***************************************************************************)
(* list.sort(key=lambda train: train["time_departure"])                    *)
(***************************************************************************)
\* the exception the key function raises on one element, "" when none
SortKeyError(e) ==
  IF e.t = "dict"
    THEN IF HasKey(e, KeyTimeDeparture) THEN "" ELSE "KeyError"
    ELSE "TypeError"

SortKey(e) == GetKey(e, KeyTimeDeparture)

\* x placed into a sorted list behind every element whose key is not greater
InsertSortedUnstable(sorted, x) ==
  LET before == {i \in 1..Len(sorted) :
                   StrLess(SortKey(sorted[i]).s, SortKey(x).s)}
      n == Cardinality(before)
  IN SubSeq(sorted, 1, n) \o <<x>> \o SubSeq(sorted, n + 1, Len(sorted))

InsertSorted(sorted, x) ==
  LET before == {i \in 1..Len(sorted) :
                   ~StrLess(SortKey(x).s, SortKey(sorted[i]).s)}
      n == Cardinality(before)
  IN SubSeq(sorted, 1, n) \o <<x>> \o SubSeq(sorted, n + 1, Len(sorted))

RECURSIVE StableSort(_)
\* the one stable ascending order of elems by key (keys are str)
StableSort(elems) ==
  IF elems = <<>> THEN <<>>
  ELSE InsertSorted(StableSort(SubSeq(elems, 1, Len(elems) - 1)),
                    elems[Len(elems)])

ListSortNone(elems) == elems

RECURSIVE ListSortUnstable(_)
ListSortUnstable(elems) ==
  IF elems = <<>> THEN <<>>
  ELSE InsertSortedUnstable(ListSortUnstable(SubSeq(elems, 1, Len(elems) - 1)),
                            elems[Len(elems)])

\* the list after a sort that raised no exception
ListSort(elems) == StableSort(elems)

\* every arrangement of the elements of a list
Arrangements(elems) ==
  {[i \in 1..Len(elems) |-> elems[p[i]]] : p \in Permutations(1..Len(elems))}

(***************************************************************************)
(* TrainManager.  Each method is an operator from the object's state and   *)
(* the arguments to its outcomes: the new self.trains, the value returned, *)
(* the exception raised ("" when none) and the level of the log record     *)
(* written ("" when none).                                                 *)
(***************************************************************************)
Outcome(tr, res, err, lvl) ==
  [trains |-> tr, result |-> res, error |-> err, level |-> lvl]

\* self.trains.append(...) followed by self.trains.sort(...)
add_train(tr, new) ==
  IF tr.t # "list"
    THEN \* a dict or a str has no append
         {Outcome(tr, PyNone, "AttributeError", "")}
  ELSE
    LET appended == Append(tr.items, new)
        failing == {i \in 1..Len(appended) : SortKeyError(appended[i]) # ""}
    IN IF failing # {}
         THEN \* the keys are computed first, in list order; the list is
              \* left as it was after the append
              LET first == CHOOSE i \in failing : \A j \in failing : i <= j
              IN {Outcome(PyList(appended), PyNone,
                          SortKeyError(appended[first]), "")}
       ELSE IF \A i \in 1..Len(appended) : SortKey(appended[i]).t = "str"
         THEN {Outcome(PyList(ListSort(appended)), PyNone, "", "INFO")}
       ELSE IF Len(appended) = 1
         THEN {Outcome(PyList(appended), PyNone, "", "INFO")}
       ELSE \* keys that are not all str: which comparison raises, and the
            \* order the list is left in, depend on the sort's steps; every
            \* arrangement, with or without a TypeError, is allowed
            {Outcome(PyList(a), PyNone, e, IF e = "" THEN "INFO" ELSE "") :
               a \in Arrangements(appended), e \in {"", "TypeError"}}

\* return self.trains
list_trains(tr) == Outcome(tr, tr, "", "")

\* what "for train in self.trains" iterates over
IterElems(tr) ==
  IF tr.t = "list" THEN tr.items
  ELSE IF tr.t = "dict" THEN [i \in 1..Len(tr.items) |-> PyStr(tr.items[i].s)]
  ELSE [i \in 1..Len(tr.s) |-> PyStr(<<tr.s[i]>>)]

\* the exception train["destination"].lower() raises on one element
SelectElemError(e) ==
  IF e.t # "dict" THEN "TypeError"
  ELSE IF ~HasKey(e, KeyDestination) THEN "KeyError"
  ELSE IF GetKey(e, KeyDestination).t # "str" THEN "AttributeError"
  ELSE ""

\* train["destination"].lower() == point_user
MatchesExactCase(e, point_user) ==
  GetKey(e, KeyDestination).s = point_user

Matches(e, point_user) ==
  Lower(GetKey(e, KeyDestination).s) = point_user

\* the list comprehension of select_trains, on elements that raise nothing
Selected(elems, point_user) ==
  LET Test(e) == Matches(e, point_user) IN SelectSeq(elems, Test)

select_trains(tr, point_user_arg) ==
  LET point_user == Lower(point_user_arg)
      elems == IterElems(tr)
      failing == {i \in 1..Len(elems) : SelectElemError(elems[i]) # ""}
  IN IF failing # {}
       THEN LET first == CHOOSE i \in failing : \A j \in failing : i <= j
            IN Outcome(tr, PyNone, SelectElemError(elems[first]), "")
       ELSE Outcome(tr, PyList(Selected(elems, point_user)), "", "INFO")

\* self.trains = json.load(f)
LoadExistingMerge(tr, text) ==
  LET r == JsonLoad(text) IN
  IF r.ok /\ tr.t = "list" /\ r.val.t = "list"
    THEN Outcome(PyList(tr.items \o r.val.items), PyNone, "", "INFO")
  ELSE IF r.ok THEN Outcome(r.val, PyNone, "", "INFO")
  ELSE Outcome(tr, PyNone, "JSONDecodeError", "")

LoadExisting(tr, text) ==
  LET r == JsonLoad(text) IN
  IF r.ok THEN Outcome(r.val, PyNone, "", "INFO")
  ELSE Outcome(tr, PyNone, "JSONDecodeError", "")

\* the else branch of load_from_json: only a warning is logged
LoadMissingClears(tr) == Outcome(PyList(<<>>), PyNone, "", "WARNING")

LoadMissing(tr) == Outcome(tr, PyNone, "", "WARNING")

\* fs maps the names of the files that exist to their text
load_from_json(tr, fs, filename) ==
  IF filename \in DOMAIN fs
    THEN LoadExisting(tr, fs[filename])
    ELSE LoadMissing(tr)

JsonSuffix == <<".","j","s","o","n">>

\* if not filename.endswith(".json"): filename += ".json"
NormalizeNameAlways(filename) == filename \o JsonSuffix

NormalizeName(filename) ==
  IF ~EndsWith(filename, JsonSuffix) THEN filename \o JsonSuffix ELSE filename

\* open(filename, "w") and json.dump: the file system afterwards
WriteFile(fs, filename, text) ==
  [n \in DOMAIN fs \cup {filename} |-> IF n = filename THEN text ELSE fs[n]]

save_to_json(tr, fs, filename) ==
  [out |-> Outcome(tr, PyNone, "", "INFO"),
   files |-> WriteFile(fs, NormalizeName(filename), JsonDump(tr))]

(***************************************************************************)
(* The strings the callers pass and the files that exist at the start.     *)
(***************************************************************************)
Moscow == <<"M","o","s","c","o","w">>
Quoted == <<"a","\"","b","\\","c">>
Kazan == <<"K","a","z","a","n">>
KazanLower == <<"k","a","z","a","n">>
KazanUpper == <<"K","A","Z","A","N">>
Samara == <<"S","a","m","a","r","a">>
N101 == <<"1","0","1">>
N202 == <<"2","0","2">>
N303 == <<"3","0","3">>
T0915 == <<"0","9",":","1","5">>
T0800 == <<"0","8",":","0","0">>
T900 == <<"9",":","0","0">>

\* the four arguments of add_train
AddInputs ==
  { <<Moscow, N101, T0915, Kazan>>,
    <<Quoted, N202, T0800, Samara>> }

\* the argument of select_trains
Queries == {KazanLower, KazanUpper, Samara, <<"k","a","z">>}

NameData == <<"d","a","t","a">>
NameDataJson == <<"d","a","t","a",".","j","s","o","n">>
NameUnsorted == <<"u","n","s","o","r","t","e","d",".","j","s","o","n">>
NameBroken == <<"b","r","o","k","e","n",".","j","s","o","n">>
NameObject == <<"o","b","j","e","c","t",".","j","s","o","n">>
NamePartial == <<"p","a","r","t","i","a","l",".","j","s","o","n">>
NameMissing == <<"m","i","s","s","i","n","g",".","j","s","o","n">>

LoadNames == {NameData, NameDataJson, NameUnsorted, NameBroken, NameObject,
              NamePartial, NameMissing}
SaveNames == {NameData, NameDataJson}

\* one record written by hand on one line: {"key":"value","key":"value",...}
RecordText(dp, nt, td, dest) ==
  <<"{">> \o QuoteStr(KeyDeparturePoint) \o <<":">> \o QuoteStr(dp)
  \o <<",">> \o QuoteStr(KeyNumberTrain) \o <<":">> \o QuoteStr(nt)
  \o <<",">> \o QuoteStr(KeyTimeDeparture) \o <<":">> \o QuoteStr(td)
  \o <<",">> \o QuoteStr(KeyDestination) \o <<":">> \o QuoteStr(dest)
  \o <<"}">>

\* a well-formed file whose records are in time order but not in str order
UnsortedTrains ==
  PyList(<< TrainDict(Moscow, N303, T900, KazanLower),
            TrainDict(Moscow, N202, T0915, Samara) >>)
UnsortedText ==
  <<"[">> \o RecordText(Moscow, N303, T900, KazanLower) \o <<",", " ">>
  \o RecordText(Moscow, N202, T0915, Samara) \o <<"]", "\n">>

\* a well-formed file whose name has no .json suffix
DataTrains == PyList(<< TrainDict(Moscow, N303, T0800, Kazan) >>)
DataText == <<"[">> \o RecordText(Moscow, N303, T0800, Kazan) \o <<"]">>

\* a file cut short in the middle of a record
BrokenText ==
  <<"[", "{">> \o QuoteStr(KeyDeparturePoint) \o <<":">> \o QuoteStr(Moscow)

\* valid JSON that is an object, not an array: {"trains": []}
ObjectText ==
  <<"{">> \o QuoteStr(<<"t","r","a","i","n","s">>) \o <<":", " ", "[", "]", "}">>

\* valid JSON whose one record has only a destination
PartialText ==
  <<"[", "{">> \o QuoteStr(KeyDestination) \o <<":">> \o QuoteStr(Kazan)
  \o <<"}", "]">>

InitialFiles ==
  [n \in {NameData, NameUnsorted, NameBroken, NameObject, NamePartial} |->
     IF n = NameData THEN DataText
     ELSE IF n = NameUnsorted THEN UnsortedText
     ELSE IF n = NameBroken THEN BrokenText
     ELSE IF n = NameObject THEN ObjectText
     ELSE PartialText]

(***************************************************************************)
(* State.                                                                  *)
(***************************************************************************)
VARIABLES
  trains,   \* TrainManager.trains
  files,    \* the files that exist: name -> text
  op,       \* the TrainManager method called by the last step, and how it
            \* ended (NoCall when the step called none)
  pc,       \* where main() is: "none" (not running), "loop", "done"
  console   \* what the last pass of main()'s loop did at its boundary

vars == <<trains, files, op, pc, console>>

Call(name, arg, out) ==
  [name |-> name, arg |-> arg, result |-> out.result, error |-> out.error,
   level |-> out.level]

NoCall == Call("none", PyNone, Outcome(PyNone, PyNone, "", ""))
NoConsole == [command |-> <<>>, raised |-> "", logged |-> "", stderr |-> FALSE]

\* manager = TrainManager(), called directly by a program that imports it
Init ==
  /\ trains = PyList(<<>>)
  /\ files = InitialFiles
  /\ op = NoCall
  /\ pc = "none"
  /\ console = NoConsole

(***************************************************************************)
(* The methods called directly.                                            *)
(***************************************************************************)
AddTrain ==
  /\ trains.t = "list" => Len(trains.items) < MaxTrains
  /\ \E a \in AddInputs :
       LET new == TrainDict(a[1], a[2], a[3], a[4]) IN
       \E out \in add_train(trains, new) :
         /\ trains' = out.trains
         /\ op' = Call("add", new, out)
  /\ UNCHANGED <<files, pc, console>>

ListTrains ==
  /\ op' = Call("list", PyNone, list_trains(trains))
  /\ UNCHANGED <<trains, files, pc, console>>

SelectTrains ==
  /\ \E q \in Queries :
       LET out == select_trains(trains, q) IN
       /\ trains' = out.trains
       /\ op' = Call("select", PyStr(q), out)
  /\ UNCHANGED <<files, pc, console>>

LoadFromJson ==
  /\ \E fn \in LoadNames :
       LET out == load_from_json(trains, files, fn) IN
       /\ trains' = out.trains
       /\ op' = Call("load", PyStr(fn), out)
  /\ UNCHANGED <<files, pc, console>>

SaveToJson ==
  /\ \E fn \in SaveNames :
       LET r == save_to_json(trains, files, fn) IN
       /\ trains' = r.out.trains
       /\ files' = r.files
       /\ op' = Call("save", PyStr(fn), r.out)
  /\ UNCHANGED <<pc, console>>

Next == AddTrain \/ ListTrains \/ SelectTrains \/ LoadFromJson \/ SaveToJson

Spec == Init /\ [][Next]_vars

(***************************************************************************)
(* main(): the interactive loop.  One pass of the loop, from input(">>> ") *)
(* to the end of the try statement, is one step.                           *)
(***************************************************************************)
RECURSIVE LStrip(_)
LStrip(s) ==
  IF s # <<>> /\ Head(s) \in Whitespace THEN LStrip(Tail(s)) ELSE s

RECURSIVE RStrip(_)
RStrip(s) ==
  IF s # <<>> /\ s[Len(s)] \in Whitespace
    THEN RStrip(SubSeq(s, 1, Len(s) - 1))
    ELSE s

\* str.strip()
Strip(s) == RStrip(LStrip(s))

RECURSIVE DropWord(_)
DropWord(s) ==
  IF s # <<>> /\ Head(s) \notin Whitespace THEN DropWord(Tail(s)) ELSE s

\* command.split(maxsplit=1)[1], for a command of two words or more
SplitRest(command) == LStrip(DropWord(LStrip(command)))

CmdExit == <<"e","x","i","t">>
CmdAdd == <<"a","d","d">>
CmdList == <<"l","i","s","t">>
CmdHelp == <<"h","e","l","p">>
CmdSelect == <<"s","e","l","e","c","t"," ">>
CmdLoad == <<"l","o","a","d"," ">>
CmdSave == <<"s","a","v","e"," ">>

\* the exception print_trains raises on one row, "" when none: the four
\* subscripts are evaluated, then each value is formatted with a width
PrintRowError(e) ==
  IF e.t # "dict" THEN "TypeError"
  ELSE IF \E k \in {KeyDeparturePoint, KeyNumberTrain, KeyTimeDeparture,
                    KeyDestination} : ~HasKey(e, k)
    THEN "KeyError"
  ELSE IF \E k \in {KeyDeparturePoint, KeyNumberTrain, KeyTimeDeparture,
                    KeyDestination} : GetKey(e, k).t # "str"
    THEN "TypeError"
  ELSE ""

\* print_trains(trains): the exception raised, "" when none
print_trains(v) ==
  LET elems == IterElems(v)
      failing == {i \in 1..Len(elems) : PrintRowError(elems[i]) # ""}
  IN IF failing = {} THEN ""
     ELSE PrintRowError(elems[CHOOSE i \in failing : \A j \in failing : i <= j])

\* except Exception: every exception of the program derives from Exception
CatchesOnlyUnknownCommand(exc) == exc = "UnknownCommandError"

Catches(exc) == exc \notin {"KeyboardInterrupt", "SystemExit", "GeneratorExit"}

\* the end of the try statement, with the exception raised in its body
\* (raised = "" when the body ran to its end)
Boundary(command, raised) ==
  IF raised = ""
    THEN /\ pc' = "loop"
         /\ console' = [command |-> command, raised |-> "", logged |-> "INFO",
                        stderr |-> FALSE]
  ELSE IF Catches(raised)
    THEN /\ pc' = "loop"
         /\ console' = [command |-> command, raised |-> raised,
                        logged |-> "ERROR", stderr |-> TRUE]
  ELSE /\ pc' = "crashed"
       /\ console' = [command |-> command, raised |-> raised, logged |-> "",
                      stderr |-> TRUE]

\* the lines typed at the prompt
Lines ==
  { CmdExit, CmdAdd, <<" ", "L", "i", "s", "t", " ">>, CmdHelp,
    CmdSelect \o KazanUpper, <<"S","e","l","e","c","t"," "," ">> \o Samara,
    <<"s","e","l","e","c","t">>, <<"s","h","o","w">>, <<>>,
    CmdLoad \o NameUnsorted, CmdLoad \o NameBroken, CmdLoad \o NameObject,
    CmdLoad \o NamePartial, CmdLoad \o NameMissing,
    <<"S","A","V","E"," ">> \o NameData }

\* command = input(">>> ").strip().lower()
Commands == {Lower(Strip(line)) : line \in Lines}

MainInit ==
  /\ trains = PyList(<<>>)
  /\ files = InitialFiles
  /\ op = NoCall
  /\ pc = "loop"
  /\ console = NoConsole

\* command == "exit": break
MainExit ==
  /\ pc = "loop"
  /\ \E command \in Commands :
       /\ command = CmdExit
       /\ pc' = "done"
       /\ console' = [command |-> command, raised |-> "", logged |-> "INFO",
                      stderr |-> FALSE]
  /\ op' = NoCall
  /\ UNCHANGED <<trains, files>>

\* command == "add": four more lines are read, then add_train is called
MainAdd ==
  /\ pc = "loop"
  /\ trains.t = "list" => Len(trains.items) < MaxTrains
  /\ \E command \in Commands :
       /\ command = CmdAdd
       /\ \E a \in AddInputs :
            LET new == TrainDict(a[1], a[2], a[3], a[4]) IN
            \E out \in add_train(trains, new) :
              /\ trains' = out.trains
              /\ op' = Call("add", new, out)
              /\ Boundary(command, out.error)
  /\ UNCHANGED files

\* command == "list": list_trains, then print_trains
MainList ==
  /\ pc = "loop"
  /\ \E command \in Commands :
       LET out == list_trains(trains)
       IN /\ command = CmdList
          /\ op' = Call("list", PyNone, out)
          /\ Boundary(command, print_trains(out.result))
  /\ UNCHANGED <<trains, files>>

\* command.startswith("select "): select_trains, then print_trains
MainSelect ==
  /\ pc = "loop"
  /\ \E command \in Commands :
       LET point_user == SplitRest(command)
           out == select_trains(trains, point_user)
       IN /\ StartsWith(command, CmdSelect)
          /\ trains' = out.trains
          /\ op' = Call("select", PyStr(point_user), out)
          /\ Boundary(command,
                      IF out.error # "" THEN out.error
                      ELSE print_trains(out.result))
  /\ UNCHANGED files

\* command.startswith("load ")
MainLoad ==
  /\ pc = "loop"
  /\ \E command \in Commands :
       LET filename == SplitRest(command)
           out == load_from_json(trains, files, filename)
       IN /\ StartsWith(command, CmdLoad)
          /\ trains' = out.trains
          /\ op' = Call("load", PyStr(filename), out)
          /\ Boundary(command, out.error)
  /\ UNCHANGED files

\* command.startswith("save ")
MainSave ==
  /\ pc = "loop"
  /\ \E command \in Commands :
       LET filename == SplitRest(command)
           r == save_to_json(trains, files, filename)
       IN /\ StartsWith(command, CmdSave)
          /\ trains' = r.out.trains
          /\ files' = r.files
          /\ op' = Call("save", PyStr(filename), r.out)
          /\ Boundary(command, r.out.error)

\* command == "help"
MainHelp ==
  /\ pc = "loop"
  /\ \E command \in Commands :
       /\ command = CmdHelp
       /\ Boundary(command, "")
  /\ op' = NoCall
  /\ UNCHANGED <<trains, files>>

\* else: raise UnknownCommandError(command)
MainUnknown ==
  /\ pc = "loop"
  /\ \E command \in Commands :
       /\ command \notin {CmdExit, CmdAdd, CmdList, CmdHelp}
       /\ ~StartsWith(command, CmdSelect)
       /\ ~StartsWith(command, CmdLoad)
       /\ ~StartsWith(command, CmdSave)
       /\ Boundary(command, "UnknownCommandError")
  /\ op' = NoCall
  /\ UNCHANGED <<trains, files>>

\* input(">>> ") at the end of the input: EOFError, raised inside the try
MainEOF ==
  /\ pc = "loop"
  /\ Boundary(<<>>, "EOFError")
  /\ op' = NoCall
  /\ UNCHANGED <<trains, files>>

MainNext ==
  \/ MainExit \/ MainAdd \/ MainList \/ MainSelect \/ MainLoad \/ MainSave
  \/ MainHelp \/ MainUnknown \/ MainEOF

MainSpec == MainInit /\ [][MainNext]_vars

(***************************************************************************)
(* Vocabulary of the properties.                                           *)
(***************************************************************************)
RecordKeys ==
  {KeyDeparturePoint, KeyNumberTrain, KeyTimeDeparture, KeyDestination}

\* a TrainRecord: an object holding the four fields, each a string
IsTrainRecord(e) ==
  /\ e.t = "dict"
  /\ \A k \in RecordKeys : HasKey(e, k) /\ GetKey(e, k).t = "str"

\* a store as the data model defines it: a sequence of TrainRecord
IsTrainList(v) ==
  /\ v.t = "list"
  /\ \A i \in 1..Len(v.items) : IsTrainRecord(v.items[i])

TimeOf(e) == GetKey(e, KeyTimeDeparture).s
DestOf(e) == GetKey(e, KeyDestination).s

NonDecreasing(elems) ==
  \A i, j \in 1..Len(elems) :
    i < j => ~StrLess(TimeOf(elems[j]), TimeOf(elems[i]))

\* the k-th smallest member of a set of indices
Nth(indices, k) ==
  CHOOSE i \in indices : Cardinality({j \in indices : j <= i}) = k

\* the elements of elems whose departure time is time, in order
WithTime(elems, time) ==
  LET Test(e) == TimeOf(e) = time IN SelectSeq(elems, Test)

(***************************************************************************)
(* C1.  Sort invariant: right after an add_train call on a store of        *)
(* well-formed records (however it was reached: adds, selects, saves,      *)
(* loads of files in any order), the call has raised nothing and the whole *)
(* collection is non-decreasing in time_departure under code-point string  *)
(* comparison ("09:15" before "9:00").                                     *)
(***************************************************************************)
C1_SortInvariant ==
  (op.name = "add" /\ IsTrainList(trains)) =>
    (op.error = "" /\ NonDecreasing(trains.items))

\* a record was added to the collection loaded from the unsorted file
C1_Witness ==
  /\ op.name = "add"
  /\ IsTrainList(trains)
  /\ Len(trains.items) = 3
  /\ \E i, j \in 1..3 :
       /\ TimeOf(trains.items[i]) = T900
       /\ TimeOf(trains.items[j]) = T0800

(***************************************************************************)
(* C2.  Filter correctness: on a store of well-formed records,             *)
(* select_trains(d) raises nothing, leaves the collection unchanged and    *)
(* returns exactly the records whose destination lower-cased equals d      *)
(* lower-cased, each as often as it occurs and in the order of the         *)
(* collection; queries that differ only in letter case return the same.    *)
(***************************************************************************)
C2_FilterCorrect ==
  [][(op'.name = "select" /\ IsTrainList(trains)) =>
       LET elems == trains.items
           d == op'.arg.s
           hits == {i \in 1..Len(elems) : Lower(DestOf(elems[i])) = Lower(d)}
           res == op'.result
       IN /\ trains' = trains
          /\ op'.error = ""
          /\ res.t = "list"
          /\ Len(res.items) = Cardinality(hits)
          /\ \A k \in 1..Len(res.items) : res.items[k] = elems[Nth(hits, k)]
          /\ \A d2 \in Queries :
               Lower(d2) = Lower(d) => select_trains(trains, d2).result = res
    ]_vars

\* an upper-case query matched two records of three, spelt differently
C2_Witness ==
  /\ op.name = "select"
  /\ op.arg = PyStr(KazanUpper)
  /\ IsTrainList(trains)
  /\ Len(trains.items) = 3
  /\ op.result.t = "list"
  /\ Len(op.result.items) = 2
  /\ DestOf(op.result.items[1]) # DestOf(op.result.items[2])

(***************************************************************************)
(* C3.  Save round trip: save_to_json(p) directly followed by              *)
(* load_from_json(p), for a path p with or without the .json suffix,       *)
(* raises nothing and leaves the collection equal to what it was when it   *)
(* was saved.                                                              *)
(***************************************************************************)
C3_SaveLoadRoundTrip ==
  [][(op.name = "save" /\ op'.name = "load" /\ op'.arg = op.arg) =>
       (op'.error = "" /\ trains' = trains)]_vars

(***************************************************************************)
(* C4.  Load replaces, never merges and never re-sorts: loading an         *)
(* existing well-formed file makes the collection the file's array in file *)
(* order whatever it held before, and list, select and save leave the      *)
(* collection as it is.                                                    *)
(***************************************************************************)
C4_LoadReplaces ==
  [][/\ (op'.name = "load" /\ op'.arg.s = NameUnsorted) =>
          (op'.error = "" /\ trains' = UnsortedTrains)
     /\ (op'.name = "load" /\ op'.arg.s = NameData) =>
          (op'.error = "" /\ trains' = DataTrains)
     /\ (op'.name = "load" /\ op'.arg.s = NameDataJson
           /\ NameDataJson \in DOMAIN files) =>
          (op'.error = "" /\ JsonDump(trains') = files[NameDataJson])
     /\ op'.name \in {"list", "select", "save"} => trains' = trains
    ]_vars

\* the unsorted file was loaded and the collection is its array, unsorted
C4_Witness ==
  /\ op.name = "load"
  /\ op.arg = PyStr(NameUnsorted)
  /\ trains = UnsortedTrains
  /\ ~NonDecreasing(trains.items)

(***************************************************************************)
(* C5.  Missing load is a no-op: load_from_json of a path that does not    *)
(* exist leaves the collection and the files as they were, raises nothing  *)
(* and logs a warning.                                                     *)
(***************************************************************************)
C5_MissingLoadNoOp ==
  [][(op'.name = "load" /\ op'.arg.s \notin DOMAIN files) =>
       /\ trains' = trains
       /\ files' = files
       /\ op'.error = ""
       /\ op'.level = "WARNING"
    ]_vars

\* a missing file was loaded into a store that holds records
C5_Witness ==
  /\ op.name = "load"
  /\ op.arg.s \notin DOMAIN files
  /\ op.level = "WARNING"
  /\ trains.t = "list"
  /\ Len(trains.items) >= 2

(***************************************************************************)
(* C6.  Failed load: load_from_json of an existing file that is malformed  *)
(* JSON, or valid JSON of the wrong shape (not an array of objects, or     *)
(* records missing a field), raises an error and leaves the collection as  *)
(* it was.                                                                 *)
(***************************************************************************)
C6_FailedLoadKeepsState ==
  [][(op'.name = "load" /\ op'.arg.s \in {NameBroken, NameObject, NamePartial}) =>
       (op'.error # "" /\ trains' = trains)]_vars

(***************************************************************************)
(* C7.  add_train never fails: in every reachable state, also after a load *)
(* of any file that load accepted, add_train raises nothing and the        *)
(* collection holds exactly one more record than before.                   *)
(***************************************************************************)
C7_AddNeverFails ==
  [][op'.name = "add" =>
       /\ op'.error = ""
       /\ trains'.t = "list"
       /\ Len(trains'.items) = Len(trains.items) + 1
    ]_vars

(***************************************************************************)
(* C8.  Filename normalization on save: save_to_json("data") and           *)
(* save_to_json("data.json") both write the file data.json and no other    *)
(* file (no suffix is appended twice); what the file held before is        *)
(* replaced by the current collection, and the collection is unchanged.    *)
(***************************************************************************)
C8_SaveNormalizes ==
  [][(op'.name = "save" /\ op'.arg.s \in {NameData, NameDataJson}) =>
       /\ op'.error = ""
       /\ trains' = trains
       /\ DOMAIN files' = DOMAIN files \cup {NameDataJson}
       /\ \A n \in DOMAIN files : n # NameDataJson => files'[n] = files[n]
       /\ JsonLoad(files'[NameDataJson]).ok
       /\ JsonLoad(files'[NameDataJson]).val = trains
    ]_vars

\* a store holding records was saved under the name without the suffix
C8_Witness ==
  /\ op.name = "save"
  /\ op.arg = PyStr(NameData)
  /\ IsTrainList(trains)
  /\ Len(trains.items) >= 2
  /\ NameDataJson \in DOMAIN files
  /\ files[NameDataJson] = JsonDump(trains)

(***************************************************************************)
(* C9.  The interactive loop survives every error: an exception raised     *)
(* while a command is processed is logged at error level and reported on   *)
(* stderr, and the loop goes on; the loop ends only on the exit command;   *)
(* an unrecognized command leaves the collection unchanged.                *)
(***************************************************************************)
C9_LoopSurvives ==
  [][/\ console'.raised # "" =>
          (pc' = "loop" /\ console'.logged = "ERROR" /\ console'.stderr)
     /\ (pc = "loop" /\ pc' # "loop") =>
          (pc' = "done" /\ console'.command = CmdExit)
     /\ console'.raised = "UnknownCommandError" =>
          (trains' = trains /\ files' = files)
    ]_vars

\* a malformed file was loaded into a store holding records; the loop goes on
C9_Witness ==
  /\ pc = "loop"
  /\ console.raised = "JSONDecodeError"
  /\ console.logged = "ERROR"
  /\ op.name = "load"
  /\ trains.t = "list"
  /\ Len(trains.items) >= 1

(***************************************************************************)
(* C10.  add_train is a stable insertion: on a store of well-formed        *)
(* records the collection afterwards is the collection before plus the new *)
(* record, rearranged; the records of each departure time, the new one     *)
(* last, are in the order they had before the call.                        *)
(***************************************************************************)
C10_StableInsertion ==
  [][(op'.name = "add" /\ IsTrainList(trains)) =>
       LET appended == Append(trains.items, op'.arg)
           times == {TimeOf(appended[i]) : i \in 1..Len(appended)}
       IN /\ op'.error = ""
          /\ trains'.t = "list"
          /\ Len(trains'.items) = Len(appended)
          /\ \A i \in 1..Len(trains'.items) :
               \E j \in 1..Len(appended) : trains'.items[i] = appended[j]
          /\ \A time \in times :
               WithTime(trains'.items, time) = WithTime(appended, time)
    ]_vars

\* the new record went behind a different record with the same time
C10_Witness ==
  /\ op.name = "add"
  /\ IsTrainList(trains)
  /\ \E i, j \in 1..Len(trains.items) :
       /\ i < j
       /\ trains.items[j] = op.arg
       /\ trains.items[i] # op.arg
       /\ TimeOf(trains.items[i]) = TimeOf(op.arg)
=============================================================================
